---- MODULE Spec2Model ----
(***************************************************************************)
(* A model of scsims/model.py: the SIMSClassifier wrapper around a TabNet  *)
(* network.  Three specifications share the variables:                     *)
(*   SpecInfer  predict / explain / feature_importances on a wrapper       *)
(*   Spec       configure_optimizers, save_model, load_model, training     *)
(*   SpecEpoch  training steps and the epoch-end median-F1 aggregation     *)
(***************************************************************************)
EXTENDS Integers, Sequences, FiniteSets, TLC

\* ------------------------------------------------------------------ bounds
MaxN == 3            \* rows of the data matrix handed to predict / explain
MaxB == 2            \* batch sizes tried
MaxParam == 1        \* parameter updates the harness makes
MaxRuns == 2         \* configure_optimizers runs on one wrapper
MaxSteps == 2        \* steps of one epoch
EpochClasses == 2    \* output_dim of the wrapper whose epochs are aggregated
NumClasses == 3      \* output_dim (top-3 needs at least three classes)

\* Default batch size of explain, the one feature_importances runs with.
explain_batch_size == 4

VARIABLES
    provided,            \* whether the members the class reads but model.py
                         \* neither defines nor assigns (get_params,
                         \* preds_mapper, device_name, _explain_matrix,
                         \* _feature_importances) exist on the instance,
                         \* supplied from outside model.py; reading a
                         \* missing one raises AttributeError
    no_explain,          \* constructor argument: skip the reducing matrix
    network,             \* [params, training]: the TabNet network
    explain_matrix,      \* the _explain_matrix cache slot
    feature_importances_,\* the _feature_importances cache slot
    pc,                  \* "idle", or "predict" while predict iterates
    loader,              \* predict: batches not yet consumed
    preds,               \* predict: rows collected so far
    labels,              \* predict: labels collected so far
    prev_network_state,  \* predict: the flag remembered at line 415
    call,                \* arguments of the call in progress / last call
    ret,                 \* outcome of the last completed call
    start_training,      \* history: the flag when the wrapper was handed over
    explain_pass_ran,    \* history: some explain call got past its cache check
    hparams,             \* the constructor's hyperparameters, by name
    optim_params,        \* self.optim_params: the caller's dict or the default
    scheduler_params,    \* self.scheduler_params, likewise
    given,               \* which of the two dicts the caller supplied
    config_log,          \* history: how each configure_optimizers run ended
    fs_dir,              \* the directory at `path`
    fs_zip,              \* the archive at `path`.zip
    step_outputs,        \* the per-step results of the running epoch
    epoch_samples,       \* history: (prediction, target) counts of the epoch
    epoch_result         \* what _epoch_end returned and logged

inferVars == <<provided, no_explain, network, explain_matrix,
               feature_importances_, pc, loader, preds, labels,
               prev_network_state, call, ret, start_training,
               explain_pass_ran>>

lifeVars == <<hparams, optim_params, scheduler_params, given, config_log,
              fs_dir, fs_zip>>

\* Every inference variable but the outcome of the last call.
inferVarsButRet == <<provided, no_explain, explain_matrix,
                     feature_importances_, pc, loader, preds, labels,
                     prev_network_state, call, start_training,
                     explain_pass_ran, network>>

epochVars == <<step_outputs, epoch_samples, epoch_result>>

vars == <<inferVars, lifeVars, epochVars>>

\* ----------------------------------------------------------------- values
Min2(a, b) == IF a < b THEN a ELSE b

\* An attribute slot of the instance: never assigned, None, or a value.
SlotUnset == [state |-> "unset", val |-> <<>>]
SlotNone == [state |-> "none", val |-> <<>>]
SlotOf(v) == [state |-> "set", val |-> v]

\* ----------------------------------------------------------- the network
\* network.eval()
Eval(net) == [net EXCEPT !.training = FALSE]

\* network.train()
Train(net) == [net EXCEPT !.training = TRUE]

\* The top-3 class indices the network gives one sample: three distinct
\* indices below output_dim, a function of the parameters and the sample.
Top3(params, s) ==
    [k \in 1..3 |-> (params + s + k - 1) % NumClasses]

\* ------------------------------------------------------------ the loader
\* CollateLoader over a matrix of n rows: batches of b rows in row order,
\* the last one shorter; a labelled loader yields (features, label) pairs.
NumBatches(n, b) == (n + b - 1) \div b

BatchRows(n, b, k) ==
    [i \in 1..(Min2(k * b, n) - (k - 1) * b) |-> (k - 1) * b + i]

Loader(n, b, labelled) ==
    [k \in 1..NumBatches(n, b) |->
        [rows |-> BatchRows(n, b, k), labelled |-> labelled]]

\* len(X) of what the loader yielded: 2 for a (features, label) pair, the
\* number of rows for a bare feature batch.
LenOf(X) == IF X.labelled THEN 2 ELSE Len(X.rows)

LabelOf(s) == <<"label", s>>

RECURSIVE Flatten(_)
Flatten(ss) == IF ss = <<>> THEN <<>> ELSE Head(ss) \o Flatten(Tail(ss))

\* -------------------------------------------------------------- numbers
\* A float as the exact ratio n/d of naturals, in lowest terms; d = 0 is
\* the result of a division by zero: nan for 0/0, inf otherwise.
RECURSIVE GCD(_, _)
GCD(a, b) == IF b = 0 THEN a ELSE GCD(b, a % b)

Ratio(n, d) ==
    IF d = 0 THEN [n |-> IF n = 0 THEN 0 ELSE 1, d |-> 0]
    ELSE [n |-> n \div GCD(n, d), d |-> d \div GCD(n, d)]

Num(k) == Ratio(k, 1)

IsNaN(x) == x.n = 0 /\ x.d = 0

Mul(x, y) == Ratio(x.n * y.n, x.d * y.d)

Add(x, y) ==
    IF x.d = 0 /\ y.d = 0 THEN (IF IsNaN(x) \/ IsNaN(y) THEN Ratio(0, 0) ELSE Ratio(1, 0))
    ELSE Ratio(x.n * y.d + y.n * x.d, x.d * y.d)

Div(x, y) == Mul(x, Ratio(y.d, y.n))

Less(x, y) == x.n * y.d < y.n * x.d

\* np.nan_to_num: a nan becomes 0.  (It also replaces an infinity, which
\* the counts never produce: a zero denominator has a zero numerator.)
NanToNum(x) == IF IsNaN(x) THEN Num(0) ELSE x

\* The sequence s with x put in before its first larger element.
RECURSIVE Insert(_, _)
Insert(x, s) ==
    IF s = <<>> THEN <<x>>
    ELSE IF Less(x, Head(s)) THEN <<x>> \o s
    ELSE <<Head(s)>> \o Insert(x, Tail(s))

RECURSIVE Sorted(_)
Sorted(s) == IF s = <<>> THEN <<>> ELSE Insert(Head(s), Sorted(Tail(s)))

SelectNotNaN(s) == SelectSeq(s, LAMBDA x : ~IsNaN(x))

\* np.nanmedian: the median of the values that are not nan, nan if none.
NanMedian(s) ==
    LET v == Sorted(SelectNotNaN(s))
        k == Len(v)
    IN  IF k = 0 THEN Ratio(0, 0)
        ELSE IF k % 2 = 1 THEN v[(k + 1) \div 2]
        ELSE Div(Add(v[k \div 2], v[k \div 2 + 1]), Num(2))

\* ------------------------------------------------------- hyperparameters
\* A Python dict: a function from its keys.
EmptyDict == [k \in {} |-> ""]

Without(d, key) == [k \in DOMAIN d \ {key} |-> d[k]]

With(d, key, v) == [k \in DOMAIN d \cup {key} |-> IF k = key THEN v ELSE d[k]]

\* Values that are class objects (isinstance(val, type)).
TypeObjects == {"Adam", "SGD", "ReduceLROnPlateau", "StepLR", "LossType"}

\* Values json.dump cannot write: class objects and function objects.
Serializable(v) == v \notin TypeObjects \cup {"loss_fn"}

\* __init__, lines 77-85 and 87-94: the caller's dict, or the default.
DefaultOptim == [optimizer |-> "Adam", lr |-> "0.001", weight_decay |-> "0.001"]

DefaultScheduler == [scheduler |-> "ReduceLROnPlateau", factor |-> "0.75"]

\* The parameter names of __init__, lines 32-54.
InitParamNames ==
    {"input_dim", "output_dim", "n_d", "n_a", "n_steps", "gamma", "cat_idxs",
     "cat_dims", "cat_emb_dim", "n_independent", "n_shared", "epsilon",
     "virtual_batch_size", "momentum", "mask_type", "lambda_sparse",
     "optim_params", "metrics", "scheduler_params", "weights", "loss",
     "pretrained", "no_explain"}

\* The hyperparameters a call __init__(**kwargs) records: the defaults of
\* the signature, overridden by the keywords given.
Hyperparameters(kwargs) ==
    [k \in {"input_dim", "output_dim", "n_d", "loss"} |->
        IF k \in DOMAIN kwargs THEN kwargs[k]
        ELSE IF k = "n_d" THEN "8" ELSE "None"]

\* A freshly constructed TabNet: default-initialised parameters, and a new
\* module starts in training mode.
FreshNetwork == [params |-> 0, training |-> TRUE]

\* The lifecycle variables while only inference runs.
LifeIdle ==
    /\ hparams = Hyperparameters([input_dim |-> "5", output_dim |-> "3"])
    /\ optim_params = DefaultOptim
    /\ scheduler_params = [is_none |-> FALSE, dict |-> DefaultScheduler]
    /\ given = [optim |-> FALSE, scheduler |-> FALSE]
    /\ config_log = <<>>
    /\ fs_dir = [exists |-> FALSE, files |-> EmptyDict]
    /\ fs_zip = [exists |-> FALSE, members |-> EmptyDict]

\* The epoch variables while no epoch runs.
NoSamples == [p \in 1..EpochClasses, t \in 1..EpochClasses |-> 0]

NoEpochResult == [done |-> FALSE, f1s |-> <<>>, median_f1 |-> Num(0)]

EpochIdle ==
    /\ step_outputs = <<>>
    /\ epoch_samples = NoSamples
    /\ epoch_result = NoEpochResult

\* ------------------------------------------------------------- inference
NoTensor == [params |-> 0, rows |-> <<>>, normalized |-> FALSE]

NoCall == [n |-> 0, b |-> 0, labelled |-> FALSE, cache |-> FALSE,
           normalize |-> FALSE]

RetNone == [op |-> "none", kind |-> "none", err |-> "", rows |-> <<>>,
            cols |-> <<>>, labels |-> <<>>, tensor |-> NoTensor,
            hit |-> FALSE, ran |-> FALSE, decoded |-> FALSE,
            entry_training |-> FALSE]

\* The wrapper as the training harness hands it to inference: the network
\* in either mode, the cache slots as construction left them.
InitInfer ==
    /\ provided \in BOOLEAN
    /\ no_explain \in BOOLEAN
    /\ network \in [params : {0}, training : BOOLEAN]
    /\ explain_matrix = IF provided THEN SlotNone ELSE SlotUnset
    /\ feature_importances_ = IF provided THEN SlotNone ELSE SlotUnset
    /\ pc = "idle"
    /\ loader = <<>>
    /\ preds = <<>>
    /\ labels = <<>>
    /\ prev_network_state = FALSE
    /\ call = NoCall
    /\ ret = RetNone
    /\ start_training = network.training
    /\ explain_pass_ran = FALSE
    /\ LifeIdle
    /\ EpochIdle

\* predict, lines 402-416: build the loader, remember the flag, eval().
PredictStart(n, b, labelled) ==
    /\ pc = "idle"
    /\ pc' = "predict"
    /\ call' = [NoCall EXCEPT !.n = n, !.b = b, !.labelled = labelled]
    /\ loader' = Loader(n, b, labelled)
    /\ preds' = <<>>
    /\ labels' = <<>>
    /\ prev_network_state' = network.training
    /\ network' = Eval(network)
    /\ ret' = [RetNone EXCEPT !.op = "predict", !.kind = "running",
                              !.entry_training = network.training]
    /\ UNCHANGED <<provided, no_explain, explain_matrix,
                   feature_importances_, start_training, explain_pass_ran,
                   lifeVars, epochVars>>

\* One forward pass on the rows of a batch: a row per sample with its
\* top-3 indices (lines 426-428).
ForwardRows(net, rows) ==
    [i \in 1..Len(rows) |-> [sample |-> rows[i], top |-> Top3(net.params, rows[i])]]

\* predict, lines 418-428: one iteration of the loop.  `len(X) == 2` is
\* true of a (features, label) pair and also of a bare batch of two rows;
\* the latter is unpacked into its two rows, and the forward pass on the
\* single 1-D row raises.
PredictBatch ==
    /\ pc = "predict"
    /\ loader # <<>>
    /\ LET X == Head(loader)
           unpack == LenOf(X) = 2
           oneD == unpack /\ ~X.labelled
       IN  IF oneD
           THEN /\ pc' = "idle"
                /\ ret' = [ret EXCEPT !.kind = "error", !.err = "forward"]
                /\ loader' = <<>>
                /\ preds' = <<>>
                /\ labels' = <<>>
                /\ UNCHANGED network
           ELSE /\ loader' = Tail(loader)
                /\ labels' = IF unpack
                             THEN labels \o [i \in 1..Len(X.rows) |-> LabelOf(X.rows[i])]
                             ELSE labels
                /\ preds' = preds \o ForwardRows(network, X.rows)
                /\ UNCHANGED <<pc, ret, network>>
    /\ UNCHANGED <<provided, no_explain, explain_matrix, feature_importances_,
                   prev_network_state, call, start_training, explain_pass_ran,
                   lifeVars, epochVars>>

\* encoder.inverse_transform on one row of indices (line 442).
Decode(row) == [row EXCEPT !.top = [k \in 1..3 |-> <<"class", row.top[k]>>]]

\* predict without lines 448-449.
RestoreModeNever(prev, net) == net

\* Lines 448-449: back to training mode if that was the mode on entry.
RestoreMode(prev, net) == IF prev THEN Train(net) ELSE net

\* predict, lines 430-451: the frame, optional decoding, the label column,
\* the flag restored.
PredictFinish(enc) ==
    /\ pc = "predict"
    /\ loader = <<>>
    /\ pc' = "idle"
    /\ LET decoded == IF enc THEN [i \in 1..Len(preds) |-> Decode(preds[i])]
                      ELSE preds
           cols == (IF preds = <<>> THEN <<>>
                    ELSE <<"first_prob", "second_prob", "third_prob">>)
                   \o (IF labels # <<>> THEN <<"actual_label">> ELSE <<>>)
       IN  /\ ret' = [ret EXCEPT !.kind = "frame", !.rows = decoded,
                                 !.cols = cols, !.labels = labels,
                                 !.decoded = enc]
           /\ network' = RestoreMode(prev_network_state, network)
    /\ loader' = <<>>
    /\ preds' = <<>>
    /\ labels' = <<>>
    /\ UNCHANGED <<provided, no_explain, explain_matrix, feature_importances_,
                   prev_network_state, call, start_training, explain_pass_ran,
                   lifeVars, epochVars>>

\* An explain pass that puts the flag back the way predict does.
ExplainNetworkRestored(net) == net

\* The network as an explain pass leaves it: eval() at line 275, and no
\* line up to the return at 312 sets the flag back.
ExplainNetwork(net) == Eval(net)

\* The stacked explanation tensor of a pass over the loader (lines 279-307).
ExplainTensor(net, n, b, normalize, labelled) ==
    [params |-> net.params,
     rows |-> Flatten([k \in 1..NumBatches(n, b) |-> Loader(n, b, labelled)[k].rows]),
     normalized |-> normalize]

\* The labels an explain pass collects (lines 281-283).
ExplainLabels(n, b, labelled) ==
    IF labelled
    THEN Flatten([k \in 1..NumBatches(n, b) |->
                    [i \in 1..Len(BatchRows(n, b, k)) |-> LabelOf(BatchRows(n, b, k)[i])]])
    ELSE <<>>

\* explain, lines 261-312.
Explain(n, b, cache, normalize, labelled) ==
    /\ pc = "idle"
    /\ call' = [n |-> n, b |-> b, labelled |-> labelled, cache |-> cache,
                normalize |-> normalize]
    /\ IF cache /\ explain_matrix.state = "unset"
       THEN \* line 272 reads an attribute nothing has assigned
            /\ ret' = [RetNone EXCEPT !.op = "explain", !.kind = "error",
                                      !.err = "AttributeError"]
            /\ UNCHANGED <<network, explain_matrix, explain_pass_ran>>
       ELSE IF cache /\ explain_matrix.state = "set"
       THEN \* line 273: the stored tensor alone
            /\ ret' = [RetNone EXCEPT !.op = "explain", !.kind = "bare",
                                      !.tensor = explain_matrix.val,
                                      !.hit = TRUE]
            /\ UNCHANGED <<network, explain_matrix, explain_pass_ran>>
       ELSE /\ network' = ExplainNetwork(network)
            /\ explain_pass_ran' = TRUE
            /\ IF no_explain
               THEN \* line 289 reads reducing_matrix, which line 116 skipped
                    /\ ret' = [RetNone EXCEPT !.op = "explain",
                                              !.kind = "error",
                                              !.err = "AttributeError",
                                              !.ran = TRUE]
                    /\ UNCHANGED explain_matrix
               ELSE LET t == ExplainTensor(network, n, b, normalize, labelled)
                    IN  /\ explain_matrix' = IF cache THEN SlotOf(t)
                                             ELSE explain_matrix
                        /\ ret' = [RetNone EXCEPT
                                     !.op = "explain", !.kind = "tuple",
                                     !.tensor = t, !.ran = TRUE,
                                     !.labels = ExplainLabels(n, b, labelled)]
    /\ UNCHANGED <<provided, no_explain, feature_importances_, pc, loader,
                   preds, labels, prev_network_state, start_training, lifeVars, epochVars>>

\* _compute_feature_importances, lines 314-319: the column sums of the
\* un-normalised tensor over their grand total.
Importances(t) == [params |-> t.params, rows |-> t.rows, normalized |-> TRUE]

\* feature_importances, lines 321-328; the pass is explain's, with explain's
\* defaults (no caching, batch size 4).
FeatureImportances(n, cache) ==
    /\ pc = "idle"
    /\ call' = [NoCall EXCEPT !.n = n, !.b = explain_batch_size,
                              !.cache = cache]
    /\ IF cache /\ feature_importances_.state = "unset"
       THEN /\ ret' = [RetNone EXCEPT !.op = "feature_importances",
                                      !.kind = "error",
                                      !.err = "AttributeError"]
            /\ UNCHANGED <<network, feature_importances_, explain_pass_ran>>
       ELSE IF cache /\ feature_importances_.state = "set"
       THEN /\ ret' = [RetNone EXCEPT !.op = "feature_importances",
                                      !.kind = "bare",
                                      !.tensor = feature_importances_.val,
                                      !.hit = TRUE]
            /\ UNCHANGED <<network, feature_importances_, explain_pass_ran>>
       ELSE /\ network' = ExplainNetwork(network)
            /\ explain_pass_ran' = TRUE
            /\ IF no_explain
               THEN /\ ret' = [RetNone EXCEPT !.op = "feature_importances",
                                              !.kind = "error",
                                              !.err = "AttributeError",
                                              !.ran = TRUE]
                    /\ UNCHANGED feature_importances_
               ELSE LET f == Importances(ExplainTensor(network, n,
                                 explain_batch_size, FALSE, FALSE))
                    IN  /\ feature_importances_' = IF cache THEN SlotOf(f)
                                                   ELSE feature_importances_
                        /\ ret' = [RetNone EXCEPT
                                     !.op = "feature_importances",
                                     !.kind = "bare", !.tensor = f,
                                     !.ran = TRUE]
    /\ UNCHANGED <<provided, no_explain, explain_matrix, pc, loader, preds,
                   labels, prev_network_state, start_training, lifeVars, epochVars>>

NextInfer ==
    \/ \E n \in 1..MaxN, b \in 1..MaxB, labelled \in BOOLEAN :
          PredictStart(n, b, labelled)
    \/ PredictBatch
    \/ \E enc \in BOOLEAN : PredictFinish(enc)
    \/ \E n \in 1..MaxN, b \in 1..MaxB, cache \in BOOLEAN,
          normalize \in BOOLEAN, labelled \in BOOLEAN :
          Explain(n, b, cache, normalize, labelled)
    \/ \E n \in 1..MaxN, cache \in BOOLEAN : FeatureImportances(n, cache)

SpecInfer == InitInfer /\ [][NextInfer]_vars

\* -------------------------------------------------------------- lifecycle
NoObject == [factory |-> "", kwargs |-> EmptyDict]

RetLifeNone == [op |-> "none", kind |-> "none", err |-> "",
                optimizer |-> NoObject, lr_scheduler |-> NoObject,
                monitor |-> "", had_scheduler |-> FALSE, before |-> <<>>,
                archive |-> EmptyDict, from_saved |-> FALSE,
                steps |-> <<>>]

\* The dicts a caller may hand to the constructor.
OptimArgs == {[optimizer |-> "SGD", lr |-> "0.1"], [lr |-> "0.1"]}

SchedulerArgs == {[scheduler |-> "StepLR", step_size |-> "10"],
                  [factor |-> "0.5"]}

\* The state after construction (lines 56-122), for every choice of the
\* optimizer and scheduler dicts and of the loss, with the target path
\* either free or holding a directory with a file of the caller's.
Init ==
    /\ provided \in BOOLEAN
    /\ no_explain = FALSE
    /\ network = FreshNetwork
    /\ explain_matrix = IF provided THEN SlotNone ELSE SlotUnset
    /\ feature_importances_ = IF provided THEN SlotNone ELSE SlotUnset
    /\ pc = "idle"
    /\ loader = <<>>
    /\ preds = <<>>
    /\ labels = <<>>
    /\ prev_network_state = FALSE
    /\ call = NoCall
    /\ ret = RetLifeNone
    /\ start_training = TRUE
    /\ explain_pass_ran = FALSE
    /\ \E loss \in {"None", "LossType", "loss_fn"} :
          hparams = Hyperparameters([input_dim |-> "5", output_dim |-> "3",
                                     loss |-> loss])
    /\ \E g \in BOOLEAN, a \in OptimArgs :
          /\ optim_params = IF g THEN a ELSE DefaultOptim
          /\ \E h \in BOOLEAN, c \in SchedulerArgs :
                /\ scheduler_params =
                      [is_none |-> FALSE,
                       dict |-> IF h THEN c ELSE DefaultScheduler]
                /\ given = [optim |-> g, scheduler |-> h]
    /\ config_log = <<>>
    /\ fs_dir \in {[exists |-> FALSE, files |-> EmptyDict],
                   [exists |-> TRUE,
                    files |-> [f \in {"notes.txt"} |->
                                 [kind |-> "other", init_params |-> EmptyDict,
                                  class_attrs |-> EmptyDict, params |-> 0]]]}
    /\ fs_zip = [exists |-> FALSE, members |-> EmptyDict]
    /\ EpochIdle

\* configure_optimizers, lines 227-247.
ConfigureOptimizers ==
    /\ pc = "idle"
    /\ Len(config_log) < MaxRuns
    /\ LET hasOpt == "optimizer" \in DOMAIN optim_params
           kw == IF hasOpt THEN Without(optim_params, "optimizer")
                 ELSE optim_params
           optimizer == [factory |-> IF hasOpt THEN optim_params["optimizer"]
                                     ELSE "Adam",
                         kwargs |-> kw]
           sd == scheduler_params.dict
           hasSched == "scheduler" \in DOMAIN sd
           r == [RetLifeNone EXCEPT !.op = "configure",
                                    !.had_scheduler = hasSched]
       IN  /\ optim_params' = kw
           /\ IF scheduler_params.is_none
              THEN \* lines 240-241
                   /\ ret' = [r EXCEPT !.kind = "optimizer",
                                       !.optimizer = optimizer]
                   /\ UNCHANGED scheduler_params
              ELSE IF ~hasSched
              THEN \* line 236: pop of a key the dict does not hold
                   /\ ret' = [r EXCEPT !.kind = "error", !.err = "KeyError"]
                   /\ UNCHANGED scheduler_params
              ELSE /\ scheduler_params' =
                        [scheduler_params EXCEPT !.dict = Without(sd, "scheduler")]
                   /\ ret' = [r EXCEPT
                                !.kind = "combined",
                                !.optimizer = optimizer,
                                !.lr_scheduler =
                                    [factory |-> sd["scheduler"],
                                     kwargs |-> Without(sd, "scheduler")],
                                !.monitor = "train_loss"]
           /\ config_log' = Append(config_log, ret'.kind)
    /\ UNCHANGED <<inferVarsButRet, hparams, given, fs_dir, fs_zip, epochVars>>

\* The training harness between the wrapper's calls: it sets the network's
\* mode, and an optimizer step in training mode changes the parameters.
HarnessStep(mode) ==
    /\ pc = "idle"
    /\ network' = [training |-> mode,
                   params |-> IF mode /\ network.params < MaxParam
                              THEN network.params + 1 ELSE network.params]
    /\ network' # network
    /\ ret' = [RetLifeNone EXCEPT !.op = "harness"]
    /\ UNCHANGED <<provided, no_explain, explain_matrix, feature_importances_,
                   pc, loader, preds, labels, prev_network_state, call,
                   start_training, explain_pass_ran, lifeVars, epochVars>>

\* ------------------------------------------------------------ persistence
\* What a file or an archive member holds.
JsonDoc(ip, ca) == [kind |-> "json", init_params |-> ip, class_attrs |-> ca,
                    params |-> 0]

PartialJson == [kind |-> "partial", init_params |-> EmptyDict,
                class_attrs |-> EmptyDict, params |-> 0]

Blob(p) == [kind |-> "blob", init_params |-> EmptyDict,
            class_attrs |-> EmptyDict, params |-> p]

\* get_params(): the constructor-level hyperparameters.
GetParams(hp) == hp

\* The class attributes save_model bundles (line 341).
ClassAttrs == [preds_mapper |-> "mapper"]

\* Lines 332-339: every hyperparameter whose value is not a class object.
InitParamsOf(params) ==
    [k \in {x \in DOMAIN params : params[x] \notin TypeObjects} |-> params[k]]

\* Line 345: mkdir(parents=True, exist_ok=True) keeps what is there.
Staging(dir) == IF dir.exists THEN dir.files ELSE EmptyDict

\* save_model, lines 330-356.
SaveModel ==
    /\ pc = "idle"
    /\ IF ~provided
       THEN \* get_params and preds_mapper are defined nowhere
            /\ ret' = [RetLifeNone EXCEPT !.op = "save", !.kind = "error",
                                          !.err = "AttributeError"]
            /\ UNCHANGED <<fs_dir, fs_zip>>
       ELSE LET init_params == InitParamsOf(GetParams(hparams))
                writable == \A k \in DOMAIN init_params :
                               Serializable(init_params[k])
                withJson == With(Staging(fs_dir), "model_params.json",
                                 IF writable
                                 THEN JsonDoc(init_params, ClassAttrs)
                                 ELSE PartialJson)
                withBlob == With(withJson, "network.pt", Blob(network.params))
            IN  IF ~writable
                THEN \* json.dump raises with the file open for writing
                     /\ fs_dir' = [exists |-> TRUE, files |-> withJson]
                     /\ ret' = [RetLifeNone EXCEPT
                                  !.op = "save", !.kind = "error",
                                  !.err = "TypeError",
                                  !.steps = <<"mkdir", "json">>]
                     /\ UNCHANGED fs_zip
                ELSE \* lines 352-354: blob, make_archive, rmtree
                     /\ fs_zip' = [exists |-> TRUE, members |-> withBlob]
                     /\ fs_dir' = [exists |-> FALSE, files |-> EmptyDict]
                     /\ ret' = [RetLifeNone EXCEPT
                                  !.op = "save", !.kind = "saved",
                                  !.archive = withBlob,
                                  !.steps = <<"mkdir", "json", "blob",
                                              "pack", "rmtree">>]
    /\ UNCHANGED <<inferVarsButRet, hparams, optim_params, scheduler_params,
                   given, config_log, epochVars>>

\* Archives that did not come from save_model: each subset of the two
\* members, with hyperparameters and parameters of another model.
ForeignArchive(ms) ==
    [m \in ms |->
        IF m = "model_params.json"
        THEN JsonDoc([input_dim |-> "5", output_dim |-> "3", n_d |-> "16",
                      loss |-> "None"], ClassAttrs)
        ELSE Blob(MaxParam)]

ForeignArchives ==
    {ForeignArchive(ms) : ms \in SUBSET {"model_params.json", "network.pt"}}

LoadError(self, e) == [kind |-> "error", err |-> e, self |-> self]

\* A load_model that rebuilds the wrapper before it opens the archive.
LoadModelReinitFirst(self, arch, prov) ==
    LET fresh == [self EXCEPT !.network = FreshNetwork]
    IN  IF "model_params.json" \notin DOMAIN arch
           \/ "network.pt" \notin DOMAIN arch
        THEN LoadError(fresh, "KeyError")
        ELSE LoadError(fresh, "TypeError")

\* load_model, lines 358-383, on the wrapper `self` and the archive
\* `arch`; `prov` says whether self.device_name exists.
LoadModel(self, arch, prov) ==
    IF "model_params.json" \notin DOMAIN arch
    THEN LoadError(self, "KeyError")
    ELSE IF ~prov
    THEN LoadError(self, "AttributeError")
    ELSE IF "network.pt" \notin DOMAIN arch
    THEN LoadError(self, "KeyError")
    ELSE LET kwargs == With(arch["model_params.json"].init_params,
                            "device_name", "cpu")
             saved_state_dict == arch["network.pt"].params
         IN  IF ~(DOMAIN kwargs \subseteq InitParamNames)
                \/ ~({"input_dim", "output_dim"} \subseteq DOMAIN kwargs)
             THEN \* line 378: __init__ takes no such keyword
                  LoadError(self, "TypeError")
             ELSE [kind |-> "loaded", err |-> "",
                   self |-> [hparams |-> Hyperparameters(kwargs),
                             optim_params |-> DefaultOptim,
                             scheduler_params |->
                                 [is_none |-> FALSE, dict |-> DefaultScheduler],
                             given |-> [optim |-> FALSE, scheduler |-> FALSE],
                             network |->
                                 Eval([FreshNetwork EXCEPT
                                         !.params = saved_state_dict])]]

Self == [hparams |-> hparams, optim_params |-> optim_params,
         scheduler_params |-> scheduler_params, given |-> given,
         network |-> network]

LoadModelCall(arch) ==
    /\ pc = "idle"
    /\ LET r == LoadModel(Self, arch, provided)
       IN  /\ hparams' = r.self.hparams
           /\ optim_params' = r.self.optim_params
           /\ scheduler_params' = r.self.scheduler_params
           /\ given' = r.self.given
           /\ network' = r.self.network
           /\ ret' = [RetLifeNone EXCEPT
                        !.op = "load", !.kind = r.kind, !.err = r.err,
                        !.before = Self, !.archive = arch,
                        !.from_saved = (fs_zip.exists /\ arch = fs_zip.members)]
    /\ UNCHANGED <<provided, no_explain, explain_matrix, feature_importances_,
                   pc, loader, preds, labels, prev_network_state, call,
                   start_training, explain_pass_ran, config_log, fs_dir,
                   fs_zip, epochVars>>

Next ==
    \/ ConfigureOptimizers
    \/ \E mode \in BOOLEAN : HarnessStep(mode)
    \/ SaveModel
    \/ \E arch \in ForeignArchives \cup
                   (IF fs_zip.exists THEN {fs_zip.members} ELSE {}) :
          LoadModelCall(arch)

Spec == Init /\ [][Next]_vars

\* ------------------------------------------------------------------ epochs
Classes == 1..EpochClasses

\* The batches of one step: one or two samples, each a pair of the class
\* predicted and the class observed.
BatchSizes == {1, 2}

StepBatches ==
    UNION {[1..k -> Classes \X Classes] : k \in BatchSizes}

\* _stat_scores_update with reduce="macro" (lines 163-168): per class, the
\* true positives, false positives and false negatives of the batch.
StatScores(batch) ==
    [tp |-> [c \in Classes |->
                Cardinality({i \in DOMAIN batch :
                                batch[i][1] = c /\ batch[i][2] = c})],
     fp |-> [c \in Classes |->
                Cardinality({i \in DOMAIN batch :
                                batch[i][1] = c /\ batch[i][2] # c})],
     fn |-> [c \in Classes |->
                Cardinality({i \in DOMAIN batch :
                                batch[i][1] # c /\ batch[i][2] = c})]]

InitEpoch ==
    /\ provided = TRUE
    /\ no_explain = FALSE
    /\ network = FreshNetwork
    /\ explain_matrix = SlotNone
    /\ feature_importances_ = SlotNone
    /\ pc = "idle"
    /\ loader = <<>>
    /\ preds = <<>>
    /\ labels = <<>>
    /\ prev_network_state = FALSE
    /\ call = NoCall
    /\ ret = RetNone
    /\ start_training = TRUE
    /\ explain_pass_ran = FALSE
    /\ LifeIdle
    /\ EpochIdle

\* training_step / validation_step / test_step (lines 152-185): the counts
\* of the batch join the epoch's step outputs.
Step(batch) ==
    /\ ~epoch_result.done
    /\ Len(step_outputs) < MaxSteps
    /\ step_outputs' = Append(step_outputs, StatScores(batch))
    /\ epoch_samples' =
          [p \in Classes, t \in Classes |->
              epoch_samples[p, t]
                  + Cardinality({i \in DOMAIN batch : batch[i] = <<p, t>>})]
    /\ UNCHANGED <<inferVars, lifeVars, epoch_result>>

\* np.sum(np.array(xs), axis=0) (lines 198-200): the per-class sums.
RECURSIVE SumOver(_, _)
SumOver(xs, c) == IF xs = <<>> THEN 0 ELSE Head(xs)[c] + SumOver(Tail(xs), c)

\* Lines 202-204 on the counts of one class.
F1Of(tp, fp, fn) ==
    LET precision == Div(Num(tp), Num(tp + fp))
        recall == Div(Num(tp), Num(tp + fn))
    IN  Div(Mul(Num(2), Mul(precision, recall)), Add(precision, recall))

\* The mean of the per-step F1 scores, each step's nan taken as 0.
EpochF1sMeanOfSteps(outs) ==
    [c \in Classes |->
        LET f == [i \in 1..Len(outs) |->
                    NanToNum(F1Of(outs[i].tp[c], outs[i].fp[c], outs[i].fn[c]))]
            sum[i \in 0..Len(outs)] ==
                IF i = 0 THEN Num(0) ELSE Add(sum[i - 1], f[i])
        IN  Div(sum[Len(outs)], Num(Len(outs)))]

\* _epoch_end, lines 188-205: sum the counts over the steps, then the
\* ratios per class, then nan_to_num.
EpochF1s(outs) ==
    LET tps == [i \in 1..Len(outs) |-> outs[i].tp]
        fps == [i \in 1..Len(outs) |-> outs[i].fp]
        fns == [i \in 1..Len(outs) |-> outs[i].fn]
    IN  [c \in Classes |->
            NanToNum(F1Of(SumOver(tps, c), SumOver(fps, c), SumOver(fns, c)))]

\* _epoch_end, lines 187-215, at the end of an epoch of at least one step.
EpochEnd ==
    /\ ~epoch_result.done
    /\ step_outputs # <<>>
    /\ LET f1s == EpochF1s(step_outputs)
       IN  epoch_result' = [done |-> TRUE, f1s |-> f1s,
                            median_f1 |-> NanMedian(f1s)]
    /\ UNCHANGED <<inferVars, lifeVars, step_outputs, epoch_samples>>

\* The next epoch starts with no step outputs.
NewEpoch ==
    /\ epoch_result.done
    /\ step_outputs' = <<>>
    /\ epoch_samples' = NoSamples
    /\ epoch_result' = NoEpochResult
    /\ UNCHANGED <<inferVars, lifeVars>>

NextEpoch ==
    \/ \E batch \in StepBatches : Step(batch)
    \/ EpochEnd
    \/ NewEpoch

SpecEpoch == InitEpoch /\ [][NextEpoch]_vars

\* ------------------------------------------------------------------ claims
ArchiveMembers == {"model_params.json", "network.pt"}

\* C1: load_model on an archive that lacks the hyperparameter JSON or the
\* parameter blob ends in an error and leaves the wrapper as it was: its
\* hyperparameters, its optimizer and scheduler dicts, its network
\* parameters and its train/eval flag.
C1_LoadMissingMember ==
    (ret.op = "load" /\ ~(ArchiveMembers \subseteq DOMAIN ret.archive))
        => (ret.kind = "error" /\ Self = ret.before)

\* A trained wrapper after a failed load of an archive without the blob.
C1_Witness ==
    /\ ret.op = "load"
    /\ DOMAIN ret.archive = {"model_params.json"}
    /\ ret.kind = "error"
    /\ network.params > 0

\* C2: load_model of the archive save_model produced completes, and gives
\* the saved parameters, the saved hyperparameters that are not class
\* objects, and a network in evaluation mode.
C2_RoundTrip ==
    (ret.op = "load" /\ ret.from_saved)
        => /\ ret.kind = "loaded"
           /\ network.params = ret.archive["network.pt"].params
           /\ ~network.training
           /\ \A k \in DOMAIN ret.before.hparams :
                 ret.before.hparams[k] \notin TypeObjects
                     => hparams[k] = ret.before.hparams[k]

\* C3: predict on n >= 1 rows through a loader of bare feature batches
\* returns n rows in input order, with the three columns, class indices as
\* values and no actual_label column.
C3_PredictRows ==
    (ret.op = "predict" /\ pc = "idle" /\ ~call.labelled /\ ~ret.decoded)
        => /\ ret.kind = "frame"
           /\ Len(ret.rows) = call.n
           /\ \A i \in 1..Len(ret.rows) :
                 /\ ret.rows[i].sample = i
                 /\ \A k \in 1..3 : ret.rows[i].top[k] \in 0..(NumClasses - 1)
           /\ ret.cols = <<"first_prob", "second_prob", "third_prob">>

\* C4: while predict iterates the network is in evaluation mode, and when
\* predict returns its frame the flag is what it was before the call.
C4_PredictModeTemporary ==
    /\ pc = "predict" => ~network.training
    /\ (ret.op = "predict" /\ ret.kind = "frame" /\ pc = "idle")
           => network.training = ret.entry_training

\* predict returned several rows on a network that was, and is, training.
C4_Witness ==
    /\ ret.op = "predict"
    /\ ret.kind = "frame"
    /\ pc = "idle"
    /\ Len(ret.rows) >= 2
    /\ ret.entry_training
    /\ network.training

\* The counts of class c over the samples of the epoch.
TotalTP(c) == epoch_samples[c, c]

TotalFP(c) ==
    LET s[k \in 0..EpochClasses] ==
            IF k = 0 THEN 0
            ELSE s[k - 1] + (IF k = c THEN 0 ELSE epoch_samples[c, k])
    IN  s[EpochClasses]

TotalFN(c) ==
    LET s[k \in 0..EpochClasses] ==
            IF k = 0 THEN 0
            ELSE s[k - 1] + (IF k = c THEN 0 ELSE epoch_samples[k, c])
    IN  s[EpochClasses]

\* F1 from counts, 0 where precision, recall or F1 has a zero denominator.
F1Ref(tp, fp, fn) ==
    IF tp + fp = 0 \/ tp + fn = 0 \/ tp = 0 THEN Num(0)
    ELSE Ratio(2 * tp, 2 * tp + fp + fn)

\* C5: the per-class F1 of _epoch_end is the F1 of the per-class counts
\* summed over the epoch's samples, however they were split into steps,
\* with 0 for a class with a zero denominator; the logged median is the
\* median of those and is never nan.
C5_SumThenRatio ==
    epoch_result.done
        => /\ epoch_result.f1s =
                 [c \in Classes |-> F1Ref(TotalTP(c), TotalFP(c), TotalFN(c))]
           /\ ~IsNaN(epoch_result.median_f1)
           /\ epoch_result.median_f1 =
                 NanMedian([c \in Classes |->
                              F1Ref(TotalTP(c), TotalFP(c), TotalFN(c))])

\* An epoch of several steps with a class never predicted and a class
\* whose F1 is a proper fraction.
C5_Witness ==
    /\ epoch_result.done
    /\ Len(step_outputs) >= 2
    /\ \E c \in Classes : TotalTP(c) + TotalFP(c) = 0
    /\ \E c \in Classes : /\ Less(Num(0), epoch_result.f1s[c])
                          /\ Less(epoch_result.f1s[c], Num(1))

\* C6: configure_optimizers returns the optimizer alone whenever the caller
\* gave no scheduler factory (no scheduler_params, or a dict without the
\* 'scheduler' key), and the combined result only when a factory is there.
C6_SchedulerOptional ==
    ret.op = "configure"
        => IF given.scheduler /\ ret.had_scheduler
           THEN ret.kind = "combined" /\ ret.monitor = "train_loss"
           ELSE ret.kind = "optimizer"

\* C7: a run of configure_optimizers leaves neither factory key in the
\* wrapper's dicts nor in the keywords it passed on, and a second run on
\* the same wrapper completes.
C7_SecondRunCompletes ==
    /\ (ret.op = "configure" /\ ret.kind # "error")
           => /\ "optimizer" \notin DOMAIN optim_params
              /\ "scheduler" \notin DOMAIN scheduler_params.dict
              /\ "optimizer" \notin DOMAIN ret.optimizer.kwargs
              /\ "scheduler" \notin DOMAIN ret.lr_scheduler.kwargs
    /\ (Len(config_log) >= 2 /\ config_log[1] # "error")
           => config_log[2] # "error"

\* C8: a save_model that completes leaves an archive of exactly the two
\* members, the JSON with init_params free of class objects, and no
\* staging directory, having written JSON, blob, archive and removed the
\* directory in that order.
C8_SaveArchive ==
    (ret.op = "save" /\ ret.kind = "saved")
        => /\ fs_zip.exists
           /\ DOMAIN fs_zip.members = ArchiveMembers
           /\ fs_zip.members["model_params.json"].kind = "json"
           /\ \A k \in DOMAIN fs_zip.members["model_params.json"].init_params :
                 fs_zip.members["model_params.json"].init_params[k]
                     \notin TypeObjects
           /\ fs_zip.members["network.pt"] = Blob(network.params)
           /\ ~fs_dir.exists
           /\ ret.steps = <<"mkdir", "json", "blob", "pack", "rmtree">>

\* C9: explain(cache=True) on a wrapper built with its reducing matrix
\* returns (tensor, labels): the first call runs the pass and stores its
\* tensor, a later call returns the stored tensor without a pass.
C9_ExplainCache ==
    (ret.op = "explain" /\ call.cache /\ ~no_explain)
        => /\ ret.kind = "tuple"
           /\ explain_matrix = SlotOf(ret.tensor)
           /\ ret.hit = ~ret.ran

\* C10: an explain pass leaves the network in evaluation mode, so after
\* any sequence of predict, explain and feature_importances calls the
\* network is in training mode only if it started there and no explain
\* pass ran.
C10_ExplainLeavesEval ==
    /\ (ret.op \in {"explain", "feature_importances"} /\ ret.ran)
           => ~network.training
    /\ network.training => (start_training /\ ~explain_pass_ran)

\* An explain pass on a wrapper that started in training mode.
C10_Witness ==
    /\ start_training
    /\ ret.op = "explain"
    /\ ret.kind = "tuple"
    /\ ret.ran
    /\ ~network.training

====
